---- MODULE Spec2Model ----
(***************************************************************************)
(* The BugfreeProvider of vscode-extension/src/extension.ts: one WebSocket *)
(* to the backend, two sequences (currentErrors, currentSuggestions) that  *)
(* back the tree views, the isConnected flag, and the commands that        *)
(* activate() registers.  Every socket callback and every command is one   *)
(* atomic action (the host delivers callbacks one at a time).              *)
(*                                                                         *)
(* The variable ev records what the last callback did: its pre-state, the  *)
(* ws.send calls it made, the notices it showed (showInformationMessage,   *)
(* showWarningMessage, showErrorMessage), how often it fired               *)
(* _onDidChangeTreeData, how many console.error lines it logged and        *)
(* whether an exception left the callback.                                 *)
(*                                                                         *)
(* config is the workspace configuration 'bugfree' (the settings the user  *)
(* has set), target the URL the socket was created for, timer the          *)
(* auto-start timeout of activate().  hist is a history variable: the      *)
(* ws.send calls made so far, the outbound actions invoked while           *)
(* connected, and the bodies of the messages received.                     *)
(***************************************************************************)
EXTENDS Integers, Sequences, FiniteSets, TLC

VARIABLES currentErrors, currentSuggestions, ws, isConnected, attempts, ev,
          config, target, timer, hist

vars == <<currentErrors, currentSuggestions, ws, isConnected, attempts, ev,
          config, target, timer, hist>>

(***************************************************************************)
(* Bounds of the model.                                                    *)
(***************************************************************************)
\* longest error sequence the model lets the provider accumulate
MaxErrors == 2
\* longest suggestions payload of an inbound suggestions_ready message
MaxSuggestions == 2
\* largest zero-based cursor line of the active editor
MaxLine == 1
\* most ws.send calls the model lets a provider make
MaxWrites == 2

(***************************************************************************)
(* Defaults of the settings.                                               *)
(***************************************************************************)
\* config.get('serverPort', 8003) of the TypeScript source
DefaultPort == 8003
\* config.get('serverPort', 8000) of the compiled out/extension.js
CompiledDefaultPort == 8000
\* Server Port default of the README
DocumentedDefaultPort == 8000
\* Max Suggestions default of the README
DocumentedMaxSuggestions == 3

(***************************************************************************)
(* JavaScript values that cross the socket.                                *)
(***************************************************************************)
\* the value of a missing property
Undefined == [t |-> "undefined"]

\* ErrorContext bodies (extension.ts 4-11), told apart by their message
ErrorContexts ==
    { [t |-> "object", error_type |-> "NameError", error_message |-> m] :
        m \in {"m1", "m2"} }

\* FixSuggestion bodies (extension.ts 13-20); explanation is optional
FixSuggestions ==
    { [title |-> "t1", explanation |-> "why"], [title |-> "t2"] }

\* all sequences over S of length at most n
SeqsUpTo(S, n) == UNION { [1..k -> S] : k \in 0..n }

\* the bodies an error_detected message can carry: an ErrorContext or nothing
ErrorBodies == ErrorContexts \cup {Undefined}

\* a JavaScript array holding the sequence items
Array(items) == [t |-> "array", items |-> items]

\* the bodies a suggestions_ready message can carry: an array or nothing
SuggestionBodies ==
    { Array(s) : s \in SeqsUpTo(FixSuggestions, MaxSuggestions) } \cup {Undefined}

\* The values JSON.parse can return for a frame: null, a primitive (number,
\* string, boolean), or an object with its type tag ("<missing>": no tag).
ParsedValues ==
    {[t |-> "null"], [t |-> "primitive"]}
    \cup { [t |-> "object", type |-> "error_detected", error |-> e] :
             e \in ErrorBodies }
    \cup { [t |-> "object", type |-> "suggestions_ready", suggestions |-> s] :
             s \in SuggestionBodies }
    \cup { [t |-> "object", type |-> tag] : tag \in {"pong", "<missing>"} }

\* The frames the socket can deliver: text that is not JSON, or JSON text.
Frames ==
    {[json |-> FALSE]} \cup { [json |-> TRUE, value |-> v] : v \in ParsedValues }

\* the active text editor: none, or a document and a zero-based cursor line
Editors ==
    {[open |-> FALSE]}
    \cup { [open |-> TRUE, fileName |-> "a.py", line |-> l] : l \in 0..MaxLine }

\* The settings of a user who has set none, and of one whose host makes no
\* valid URL.
PlainConfigs == { <<>>, [serverHost |-> "bad host"] }

\* The settings a user can have set: those, auto start with at most one
\* suggestion, and another server.
Configs ==
    PlainConfigs
    \cup { [autoStart |-> TRUE, maxSuggestions |-> 1],
           [serverHost |-> "bugfree.example", serverPort |-> 9000] }

\* the suggestions explainFix can be invoked with: those of the backend, and
\* one whose explanation is the empty string
ExplainArgs == FixSuggestions \cup {[title |-> "t3", explanation |-> ""]}

(***************************************************************************)
(* Pure helpers.                                                           *)
(***************************************************************************)
\* config.get(key, default)
ConfigGet(cfg, key, default) == IF key \in DOMAIN cfg THEN cfg[key] ELSE default

\* the host and port connectToBugfree builds its URL from
Target(cfg) ==
    [host |-> ConfigGet(cfg, "serverHost", "localhost"),
     port |-> ConfigGet(cfg, "serverPort", DefaultPort)]

\* new WebSocket(url) throws a SyntaxError on a URL that does not parse
InvalidUrl(t) == t.host = "bad host"

\* no webview panel
NoPanel == [t |-> "none"]

\* JSON.parse(data.toString()): throws on text that is not JSON
JSONparse(data) ==
    IF data.json THEN [threw |-> FALSE, value |-> data.value]
                 ELSE [threw |-> TRUE]

\* the property read message.type: a TypeError on null, undefined on a
\* primitive or on an object without the property
ReadType(message) ==
    CASE message.t = "null"   -> [threw |-> TRUE]
      [] message.t = "object" -> [threw |-> FALSE, value |-> message.type]
      [] OTHER                -> [threw |-> FALSE, value |-> "<missing>"]

\* a && b written for a || b: b whenever a is an array
OrElseAnd(a, b) == IF a = Undefined THEN <<>> ELSE b.items

\* JavaScript's a || b where a is an array or undefined: the items of a (an
\* array, even an empty one, is truthy), else those of b
OrElse(a, b) == IF a = Undefined THEN b.items ELSE a.items

\* the keys of order that object o has, in that order
OwnKeys(order, o) == SelectSeq(order, LAMBDA k : k \in DOMAIN o)

\* JSON.stringify of a FixSuggestion: its properties in insertion order
StringifySuggestion(s) ==
    LET ks == OwnKeys(<<"title", "explanation">>, s)
    IN  [i \in 1..Len(ks) |-> <<ks[i], s[ks[i]]>>]

\* JSON.stringify of an outbound message: the text sent, as its key/value
\* pairs in insertion order
JSONstringify(m) ==
    LET ks == OwnKeys(<<"type", "suggestion", "file", "line">>, m)
    IN  [i \in 1..Len(ks) |->
            <<ks[i], IF ks[i] = "suggestion"
                       THEN StringifySuggestion(m[ks[i]])
                       ELSE m[ks[i]]>>]

\* a push that skips an item the array already holds
pushUnique(array, item) ==
    IF \E i \in 1..Len(array) : array[i] = item THEN array
                                                  ELSE Append(array, item)

\* Array.prototype.push
push(array, item) == Append(array, item)

\* vscode.window.show{Information,Warning,Error}Message
Notice(level, text) == [level |-> level, text |-> text]

\* the state a callback starts from
Pre ==
    [currentErrors |-> currentErrors, currentSuggestions |-> currentSuggestions,
     ws |-> ws, isConnected |-> isConnected, attempts |-> attempts]

\* what a callback did
Did(op, arg, wrote, notices, fired, logs, raised) ==
    [op |-> op, arg |-> arg, pre |-> Pre, wrote |-> wrote, notices |-> notices,
     fired |-> fired, logs |-> logs, raised |-> raised, panel |-> NoPanel]

\* a refresh() that fires nothing
refreshNever(fired) == fired

\* refresh(): one more _onDidChangeTreeData.fire()
refresh(fired) == fired + 1

(***************************************************************************)
(* Construction: connectToBugfree() runs once.  new WebSocket(url) either  *)
(* returns a socket in its CONNECTING state with the four listeners        *)
(* registered, or throws (an invalid URL from the configured host), which  *)
(* the catch logs and which leaves ws null.                                *)
(***************************************************************************)
connectToBugfree(threw) ==
    /\ currentErrors = <<>>
    /\ currentSuggestions = <<>>
    /\ isConnected = FALSE
    /\ attempts = 1
    /\ ws = IF threw THEN "null" ELSE "connecting"
    /\ ev = [op |-> "constructor", arg |-> Undefined,
             pre |-> [currentErrors |-> <<>>, currentSuggestions |-> <<>>,
                      ws |-> "null", isConnected |-> FALSE, attempts |-> 0],
             wrote |-> <<>>, notices |-> <<>>, fired |-> 0,
             logs |-> IF threw THEN 1 ELSE 0, raised |-> FALSE,
             panel |-> NoPanel]

\* activate(): the provider is constructed for the configured target, and
\* the auto-start timeout is set when the autoStart setting is on
activate(cfg) ==
    /\ config = cfg
    /\ target = Target(cfg)
    /\ connectToBugfree(InvalidUrl(Target(cfg)))
    /\ timer = IF ConfigGet(cfg, "autoStart", FALSE) THEN "armed" ELSE "off"
    /\ hist = [sent |-> 0, due |-> 0, dropped |-> FALSE, autoSent |-> FALSE,
               errors |-> <<>>, suggestions |-> <<>>]

Init == \E cfg \in PlainConfigs : activate(cfg)

InitConfigured == \E cfg \in Configs : activate(cfg)

(***************************************************************************)
(* The history kept of a callback e that has just run.                     *)
(***************************************************************************)
\* e is an outbound action that got as far as its connected check
Outbound(e) ==
    \/ e.op \in {"startSystem", "autoStart", "stopSystem", "applyFix"}
    \/ e.op = "analyzeError" /\ e.arg.open

\* e is the message listener run on an object tagged tag
Received(e, tag) ==
    /\ e.op = "message"
    /\ e.arg.json
    /\ e.arg.value.t = "object"
    /\ e.arg.value.type = tag

\* sent: the ws.send calls made so far; due: the outbound actions invoked
\* while connected; dropped: an outbound action was dropped during the
\* handshake, which is still in flight or has ended with the callback that
\* has just run; autoSent: the auto-start timeout sent start_system;
\* errors, suggestions: the bodies received, in arrival order, and the last
\* suggestions payload
Tally(e) ==
    LET connected == e.pre.ws # "null" /\ e.pre.isConnected
    IN  [sent |-> hist.sent + Len(e.wrote),
         due |-> IF Outbound(e) /\ connected THEN hist.due + 1 ELSE hist.due,
         dropped |-> CASE Outbound(e) /\ e.pre.ws = "connecting" -> TRUE
                       [] e.pre.ws = "connecting" -> hist.dropped
                       [] OTHER -> FALSE,
         autoSent |-> hist.autoSent \/ (e.op = "autoStart" /\ e.wrote # <<>>),
         errors |-> IF Received(e, "error_detected")
                      THEN Append(hist.errors, e.arg.value.error)
                      ELSE hist.errors,
         suggestions |->
             IF Received(e, "suggestions_ready")
               THEN IF e.arg.value.suggestions = Undefined
                      THEN <<>>
                      ELSE e.arg.value.suggestions.items
               ELSE hist.suggestions]

(***************************************************************************)
(* Socket callbacks.                                                       *)
(***************************************************************************)
\* an open listener that sends the start request an earlier action could
\* not send
OnOpenFlushes ==
    /\ ws = "connecting"
    /\ ws' = "open"
    /\ isConnected' = TRUE
    /\ ev' = Did("open", Undefined,
                 IF hist.dropped THEN <<JSONstringify([type |-> "start_system"])>>
                                 ELSE <<>>,
                 <<Notice("info", "Connected to Bugfree system")>>,
                 refresh(0), 0, FALSE)
    /\ UNCHANGED <<currentErrors, currentSuggestions, attempts, config, target, timer>>
    /\ hist' = Tally(ev')

\* ws.on('open')
OnOpen ==
    /\ ws = "connecting"
    /\ ws' = "open"
    /\ isConnected' = TRUE
    /\ ev' = Did("open", Undefined, <<>>,
                 <<Notice("info", "Connected to Bugfree system")>>,
                 refresh(0), 0, FALSE)
    /\ UNCHANGED <<currentErrors, currentSuggestions, attempts, config, target, timer>>
    /\ hist' = Tally(ev')

\* handleBugfreeMessage that drops the suggestions when an error arrives
handleBugfreeMessageClears(message) ==
    LET type == ReadType(message)
        same == [threw |-> FALSE, currentErrors |-> currentErrors,
                 currentSuggestions |-> currentSuggestions, fired |-> 0]
    IN  CASE type.threw -> [same EXCEPT !.threw = TRUE]
          [] ~type.threw /\ type.value = "error_detected" ->
                [same EXCEPT !.currentErrors = push(currentErrors, message.error),
                             !.currentSuggestions = <<>>,
                             !.fired = refresh(0)]
          [] ~type.threw /\ type.value = "suggestions_ready" ->
                [same EXCEPT !.currentSuggestions = OrElse(message.suggestions, Array(<<>>)),
                             !.fired = refresh(0)]
          [] OTHER -> same

\* handleBugfreeMessage with refresh() moved after the if/else
handleBugfreeMessageRefreshes(message) ==
    LET type == ReadType(message)
        same == [threw |-> FALSE, currentErrors |-> currentErrors,
                 currentSuggestions |-> currentSuggestions, fired |-> 0]
    IN  CASE type.threw -> [same EXCEPT !.threw = TRUE]
          [] ~type.threw /\ type.value = "error_detected" ->
                [same EXCEPT !.currentErrors = push(currentErrors, message.error),
                             !.fired = refresh(0)]
          [] ~type.threw /\ type.value = "suggestions_ready" ->
                [same EXCEPT !.currentSuggestions = OrElse(message.suggestions, Array(<<>>)),
                             !.fired = refresh(0)]
          [] OTHER -> [same EXCEPT !.fired = refresh(0)]

\* handleBugfreeMessage(message): the sequences after it and the number of
\* change notifications it fires; threw when reading message.type throws
handleBugfreeMessage(message) ==
    LET type == ReadType(message)
        same == [threw |-> FALSE, currentErrors |-> currentErrors,
                 currentSuggestions |-> currentSuggestions, fired |-> 0]
    IN  CASE type.threw -> [same EXCEPT !.threw = TRUE]
          [] ~type.threw /\ type.value = "error_detected" ->
                [same EXCEPT !.currentErrors = push(currentErrors, message.error),
                             !.fired = refresh(0)]
          [] ~type.threw /\ type.value = "suggestions_ready" ->
                [same EXCEPT !.currentSuggestions = OrElse(message.suggestions, Array(<<>>)),
                             !.fired = refresh(0)]
          [] OTHER -> same

\* the body of the try block of the message listener
TryMessage(data) ==
    LET parsed == JSONparse(data)
    IN  IF parsed.threw
          THEN [threw |-> TRUE, currentErrors |-> currentErrors,
                currentSuggestions |-> currentSuggestions, fired |-> 0]
          ELSE handleBugfreeMessage(parsed.value)

\* the message listener without its try/catch
MessageListenerNoCatch(data) ==
    LET r == TryMessage(data)
    IN  [currentErrors |-> r.currentErrors,
         currentSuggestions |-> r.currentSuggestions,
         fired |-> r.fired,
         logs |-> 0,
         raised |-> r.threw]

\* the message listener: try { parse; handle } catch { console.error }
MessageListener(data) ==
    LET r == TryMessage(data)
    IN  [currentErrors |-> r.currentErrors,
         currentSuggestions |-> r.currentSuggestions,
         fired |-> r.fired,
         logs |-> IF r.threw THEN 1 ELSE 0,
         raised |-> FALSE]

\* whether the frame would make the error sequence longer than the model keeps
Grows(data) ==
    /\ data.json
    /\ data.value.t = "object"
    /\ data.value.type = "error_detected"

\* ws.on('message'): frames arrive while the socket is open, and until the
\* close handshake ends after close() was called
OnMessage ==
    \E data \in Frames :
        /\ ws \in {"open", "closing"}
        /\ Grows(data) => Len(currentErrors) < MaxErrors
        /\ LET r == MessageListener(data)
           IN  /\ currentErrors' = r.currentErrors
               /\ currentSuggestions' = r.currentSuggestions
               /\ ev' = Did("message", data, <<>>, <<>>, r.fired, r.logs, r.raised)
        /\ UNCHANGED <<ws, isConnected, attempts, config, target, timer>>
        /\ hist' = Tally(ev')

\* a close listener that forgets to clear the flag
OnCloseKeepsFlag ==
    /\ ws \in {"open", "errored", "closing"}
    /\ ws' = "closed"
    /\ ev' = Did("close", Undefined, <<>>,
                 <<Notice("warning", "Disconnected from Bugfree system")>>,
                 refresh(0), 0, FALSE)
    /\ UNCHANGED <<currentErrors, currentSuggestions, isConnected, attempts, config, target, timer>>
    /\ hist' = Tally(ev')

\* ws.on('close')
OnClose ==
    /\ ws \in {"open", "errored", "closing"}
    /\ ws' = "closed"
    /\ isConnected' = FALSE
    /\ ev' = Did("close", Undefined, <<>>,
                 <<Notice("warning", "Disconnected from Bugfree system")>>,
                 refresh(0), 0, FALSE)
    /\ UNCHANGED <<currentErrors, currentSuggestions, attempts, config, target, timer>>
    /\ hist' = Tally(ev')

\* ws.on('error'): the socket emits 'error' and then 'close'
OnError ==
    /\ ws \in {"connecting", "open", "aborting", "closing"}
    /\ ws' = "errored"
    /\ ev' = Did("error", Undefined, <<>>,
                 <<Notice("error", "Failed to connect to Bugfree system")>>,
                 0, 1, FALSE)
    /\ UNCHANGED <<currentErrors, currentSuggestions, isConnected, attempts, config, target, timer>>
    /\ hist' = Tally(ev')

(***************************************************************************)
(* Commands.                                                               *)
(***************************************************************************)
\* the guard of every send: this.ws && this.isConnected
CanSend == ws # "null" /\ isConnected

\* the model stops a provider that has made MaxWrites ws.send calls from
\* making another
WithinBudget == CanSend => hist.sent < MaxWrites

\* a startSystem() that calls connectToBugfree() when it cannot send
StartSystemReconnects ==
    /\ WithinBudget
    /\ ev' = IF CanSend
               THEN Did("startSystem", Undefined,
                        <<JSONstringify([type |-> "start_system"])>>,
                        <<Notice("info", "Starting Bugfree system...")>>,
                        0, 0, FALSE)
               ELSE Did("startSystem", Undefined, <<>>,
                        <<Notice("error", "Not connected to Bugfree system")>>,
                        0, 0, FALSE)
    /\ ws' = IF CanSend THEN ws ELSE "connecting"
    /\ attempts' = IF CanSend THEN attempts ELSE attempts + 1
    /\ UNCHANGED <<currentErrors, currentSuggestions, isConnected, config, target, timer>>
    /\ hist' = Tally(ev')

\* startSystem(), run by op (the command, or the auto-start timeout)
startSystem(op) ==
    IF CanSend
      THEN Did(op, Undefined,
               <<JSONstringify([type |-> "start_system"])>>,
               <<Notice("info", "Starting Bugfree system...")>>,
               0, 0, FALSE)
      ELSE Did(op, Undefined, <<>>,
               <<Notice("error", "Not connected to Bugfree system")>>,
               0, 0, FALSE)

\* the bugfree.startSystem command
StartSystem ==
    /\ WithinBudget
    /\ ev' = startSystem("startSystem")
    /\ UNCHANGED <<currentErrors, currentSuggestions, ws, isConnected, attempts, config, target, timer>>
    /\ hist' = Tally(ev')

\* stopSystem()
StopSystem ==
    /\ WithinBudget
    /\ ev' = IF CanSend
               THEN Did("stopSystem", Undefined,
                        <<JSONstringify([type |-> "stop_system"])>>,
                        <<Notice("info", "Stopping Bugfree system...")>>,
                        0, 0, FALSE)
               ELSE Did("stopSystem", Undefined, <<>>, <<>>, 0, 0, FALSE)
    /\ UNCHANGED <<currentErrors, currentSuggestions, ws, isConnected, attempts, config, target, timer>>
    /\ hist' = Tally(ev')

\* an apply_fix message that leaves the suggestion out
ApplyFixMessageBare(suggestion) == [type |-> "apply_fix"]

\* what applyFix(suggestion) sends
ApplyFixMessage(suggestion) == [type |-> "apply_fix", suggestion |-> suggestion]

\* applyFix(suggestion)
ApplyFix ==
    \E suggestion \in FixSuggestions :
        /\ WithinBudget
        /\ ev' = IF CanSend
                   THEN Did("applyFix", suggestion,
                            <<JSONstringify(ApplyFixMessage(suggestion))>>,
                            <<Notice("info", "Applying fix: " \o suggestion.title)>>,
                            0, 0, FALSE)
                   ELSE Did("applyFix", suggestion, <<>>, <<>>, 0, 0, FALSE)
        /\ UNCHANGED <<currentErrors, currentSuggestions, ws, isConnected, attempts, config, target, timer>>
        /\ hist' = Tally(ev')

\* an analyzeError command that tests the connection before the editor
AnalyzeErrorConnectionFirst ==
    \E editor \in Editors :
        /\ WithinBudget
        /\ ev' = IF CanSend
                   THEN IF editor.open
                          THEN Did("analyzeError", editor,
                                   <<JSONstringify([type |-> "analyze_error",
                                                    file |-> editor.fileName,
                                                    line |-> editor.line + 1])>>,
                                   <<Notice("info", "Analyzing error...")>>,
                                   0, 0, FALSE)
                          ELSE Did("analyzeError", editor, <<>>,
                                   <<Notice("error", "No active editor")>>, 0, 0, FALSE)
                   ELSE Did("analyzeError", editor, <<>>,
                            <<Notice("error", "Not connected to Bugfree system")>>,
                            0, 0, FALSE)
        /\ UNCHANGED <<currentErrors, currentSuggestions, ws, isConnected, attempts, config, target, timer>>
        /\ hist' = Tally(ev')

\* the bugfree.analyzeError command
AnalyzeError ==
    \E editor \in Editors :
        /\ WithinBudget
        /\ ev' = IF editor.open
                   THEN IF CanSend
                          THEN Did("analyzeError", editor,
                                   <<JSONstringify([type |-> "analyze_error",
                                                    file |-> editor.fileName,
                                                    line |-> editor.line + 1])>>,
                                   <<Notice("info", "Analyzing error...")>>,
                                   0, 0, FALSE)
                          ELSE Did("analyzeError", editor, <<>>,
                                   <<Notice("error", "Not connected to Bugfree system")>>,
                                   0, 0, FALSE)
                   ELSE Did("analyzeError", editor, <<>>,
                            <<Notice("error", "No active editor")>>, 0, 0, FALSE)
        /\ UNCHANGED <<currentErrors, currentSuggestions, ws, isConnected, attempts, config, target, timer>>
        /\ hist' = Tally(ev')

\* a dispose() that also empties the two sequences
DisposeClears ==
    /\ ws' = CASE ws = "connecting" -> "aborting"
               [] ws = "open"       -> "closing"
               [] OTHER             -> ws
    /\ currentErrors' = <<>>
    /\ currentSuggestions' = <<>>
    /\ ev' = Did("dispose", Undefined, <<>>, <<>>, 0, 0, FALSE)
    /\ UNCHANGED <<isConnected, attempts, config, target, timer>>
    /\ hist' = Tally(ev')

\* dispose(): ws.close() starts the close handshake of an open socket and
\* aborts a handshake in flight; it does nothing to a socket already closing
Dispose ==
    /\ ws' = CASE ws = "connecting" -> "aborting"
               [] ws = "open"       -> "closing"
               [] OTHER             -> ws
    /\ ev' = Did("dispose", Undefined, <<>>, <<>>, 0, 0, FALSE)
    /\ UNCHANGED <<currentErrors, currentSuggestions, isConnected, attempts, config, target, timer>>
    /\ hist' = Tally(ev')

\* suggestion.explanation || 'No explanation available'
Explanation(suggestion) ==
    IF "explanation" \in DOMAIN suggestion /\ suggestion.explanation # ""
      THEN suggestion.explanation
      ELSE "No explanation available"

\* an explainFix that also asks the backend when it can send
ExplainFixAsks ==
    \E suggestion \in ExplainArgs :
        /\ WithinBudget
        /\ ev' = [Did("explainFix", suggestion,
                      IF CanSend THEN <<JSONstringify([type |-> "explain_fix"])>>
                                 ELSE <<>>,
                      <<>>, 0, 0, FALSE)
                    EXCEPT !.panel = [t |-> "bugfreeExplanation",
                                      title |-> suggestion.title,
                                      explanation |-> Explanation(suggestion)]]
        /\ UNCHANGED <<currentErrors, currentSuggestions, ws, isConnected, attempts, config, target, timer>>
        /\ hist' = Tally(ev')

\* explainFix(suggestion): a webview panel with the title and the explanation
ExplainFix ==
    \E suggestion \in ExplainArgs :
        /\ ev' = [Did("explainFix", suggestion, <<>>, <<>>, 0, 0, FALSE)
                    EXCEPT !.panel = [t |-> "bugfreeExplanation",
                                      title |-> suggestion.title,
                                      explanation |-> Explanation(suggestion)]]
        /\ UNCHANGED <<currentErrors, currentSuggestions, ws, isConnected, attempts, config, target, timer>>
        /\ hist' = Tally(ev')

\* the errors listed under Current Errors that the command can be invoked on
ListedErrors ==
    { currentErrors[i] : i \in 1..Len(currentErrors) } \cap ErrorContexts

\* the bugfree.ignoreError command
IgnoreError ==
    \E error \in ListedErrors :
        /\ ev' = Did("ignoreError", error, <<>>,
                     <<Notice("info", "Ignored error: " \o error.error_message)>>,
                     0, 0, FALSE)
        /\ UNCHANGED <<currentErrors, currentSuggestions, ws, isConnected, attempts, config, target, timer>>
        /\ hist' = Tally(ev')

\* the auto-start timeout of activate(): one startSystem() call
AutoStart ==
    /\ timer = "armed"
    /\ WithinBudget
    /\ timer' = "fired"
    /\ ev' = startSystem("autoStart")
    /\ UNCHANGED <<currentErrors, currentSuggestions, ws, isConnected, attempts, config, target>>
    /\ hist' = Tally(ev')

Next ==
    \/ OnOpen
    \/ OnMessage
    \/ OnClose
    \/ OnError
    \/ StartSystem
    \/ StopSystem
    \/ ApplyFix
    \/ AnalyzeError
    \/ ExplainFix
    \/ IgnoreError
    \/ Dispose

\* a provider activated with no setting that matters set
Spec == Init /\ [][Next]_vars

NextConfigured ==
    \/ Next
    \/ AutoStart

\* a provider activated with any of the settings
SpecConfigured == InitConfigured /\ [][NextConfigured]_vars

\* the label of the first root item of getChildren()
StatusLabel == IF isConnected THEN "Connected" ELSE "Disconnected"

\* getChildren(element) of the Fix Suggestions group: one item for each
\* suggestion
SuggestionItems ==
    [i \in 1..Len(currentSuggestions) |->
        [label |-> currentSuggestions[i].title, contextValue |-> "suggestion"]]

\* the item that the map callback of the Current Errors group builds for one
\* entry; reading error.error_type of an undefined entry is a TypeError.
\* substring(0, 50) keeps the short messages of the model whole.
ErrorItem(error) ==
    IF error = Undefined
      THEN [threw |-> TRUE]
      ELSE [threw |-> FALSE,
            item |-> [label |-> error.error_type \o ": " \o error.error_message \o "...",
                      contextValue |-> "error",
                      arguments |-> <<error>>]]

\* getChildren(element) of the Current Errors group: currentErrors.map(...)
ErrorItems ==
    IF \E i \in 1..Len(currentErrors) : ErrorItem(currentErrors[i]).threw
      THEN [threw |-> TRUE]
      ELSE [threw |-> FALSE,
            items |-> [i \in 1..Len(currentErrors) |-> ErrorItem(currentErrors[i]).item]]

\* getChildren() of the root: the status item, then a group for each
\* sequence that is not empty
RootItems ==
    <<[label |-> StatusLabel, contextValue |-> "<none>"]>>
    \o (IF Len(currentErrors) > 0
          THEN <<[label |-> "Current Errors (" \o ToString(Len(currentErrors)) \o ")",
                  contextValue |-> "errors"]>>
          ELSE <<>>)
    \o (IF Len(currentSuggestions) > 0
          THEN <<[label |-> "Fix Suggestions (" \o ToString(Len(currentSuggestions)) \o ")",
                  contextValue |-> "suggestions"]>>
          ELSE <<>>)

\* getChildren(element): the items returned, or threw when building them
\* throws
getChildren(element) ==
    CASE element = Undefined -> [threw |-> FALSE, items |-> RootItems]
      [] element # Undefined /\ element.contextValue = "errors" -> ErrorItems
      [] element # Undefined /\ element.contextValue = "suggestions" ->
            [threw |-> FALSE, items |-> SuggestionItems]
      [] OTHER -> [threw |-> FALSE, items |-> <<>>]

TypeOK ==
    /\ currentErrors \in SeqsUpTo(ErrorBodies, MaxErrors)
    /\ isConnected \in BOOLEAN
    /\ ws \in {"null", "connecting", "open", "aborting", "errored", "closing", "closed"}
    /\ currentSuggestions \in SeqsUpTo(FixSuggestions, MaxSuggestions)
    /\ attempts \in Nat
    /\ config \in Configs
    /\ timer \in {"off", "armed", "fired"}
    /\ hist.sent \in 0..MaxWrites

(***************************************************************************)
(* Vocabulary of the properties.                                           *)
(***************************************************************************)
\* the last callback was the message listener, on a frame that parsed to an
\* object tagged tag
HandledTag(tag) ==
    /\ ev.op = "message"
    /\ ev.arg.json
    /\ ev.arg.value.t = "object"
    /\ ev.arg.value.type = tag

\* the last callback left both sequences and the connected flag as they were
StateKept ==
    /\ currentErrors = ev.pre.currentErrors
    /\ currentSuggestions = ev.pre.currentSuggestions
    /\ isConnected = ev.pre.isConnected

\* the last callback started while the provider was disconnected
WasDisconnected == ev.pre.ws = "null" \/ ~ev.pre.isConnected

(***************************************************************************)
(* C1.  An error_detected message strictly appends: the error sequence     *)
(* afterwards is the sequence before followed by the message's error body, *)
(* also when an equal error is already in the sequence.                    *)
(***************************************************************************)
C1_ErrorDetectedAppends ==
    HandledTag("error_detected") =>
        /\ Len(currentErrors) = Len(ev.pre.currentErrors) + 1
        /\ \A i \in 1..Len(ev.pre.currentErrors) :
              currentErrors[i] = ev.pre.currentErrors[i]
        /\ currentErrors[Len(currentErrors)] = ev.arg.value.error

\* an error equal to one already in the sequence has just been appended
C1_Witness ==
    /\ HandledTag("error_detected")
    /\ ev.arg.value.error \in ErrorContexts
    /\ \E i \in 1..Len(ev.pre.currentErrors) :
          ev.pre.currentErrors[i] = ev.arg.value.error
    /\ Len(currentErrors) = Len(ev.pre.currentErrors) + 1

(***************************************************************************)
(* C2.  A suggestions_ready message is a full replace: whatever the        *)
(* suggestion sequence held, afterwards it is exactly the array the        *)
(* message carries (the empty array included).                             *)
(***************************************************************************)
C2_SuggestionsReadyReplaces ==
    (HandledTag("suggestions_ready") /\ ev.arg.value.suggestions # Undefined) =>
        currentSuggestions = ev.arg.value.suggestions.items

\* a non-empty suggestion sequence has just been replaced by the empty
\* payload, so that nothing of it survives
C2_Witness ==
    /\ HandledTag("suggestions_ready")
    /\ ev.arg.value.suggestions # Undefined
    /\ ev.pre.currentSuggestions # <<>>
    /\ ev.arg.value.suggestions.items = <<>>
    /\ currentSuggestions = <<>>

(***************************************************************************)
(* C3.  Any outbound action (start, stop, apply fix, analyze error)        *)
(* attempted while disconnected makes no network write and shows exactly   *)
(* one notice.                                                             *)
(***************************************************************************)
C3_DisconnectedActionOneNotice ==
    (ev.op \in {"startSystem", "stopSystem", "applyFix", "analyzeError"}
        /\ WasDisconnected) =>
        /\ ev.wrote = <<>>
        /\ Len(ev.notices) = 1

(***************************************************************************)
(* C4.  A frame that is not JSON, or that parses to a non-object value,    *)
(* changes neither sequence nor the connected flag, fires no change        *)
(* notification, shows no notice and never raises out of the listener; at  *)
(* most one diagnostic is logged, and exactly one when the text is not     *)
(* JSON or parses to null.                                                 *)
(***************************************************************************)
C4_MalformedFrameOnlyLogs ==
    (ev.op = "message" /\ (~ev.arg.json \/ ev.arg.value.t # "object")) =>
        /\ StateKept
        /\ ev.fired = 0
        /\ ev.notices = <<>>
        /\ ev.wrote = <<>>
        /\ ~ev.raised
        /\ ev.logs <= 1
        /\ (~ev.arg.json \/ ev.arg.value.t = "null") => ev.logs = 1

\* text that is not JSON has just been received by a provider that holds
\* errors and suggestions
C4_Witness ==
    /\ ev.op = "message"
    /\ ~ev.arg.json
    /\ ev.logs = 1
    /\ currentErrors # <<>>
    /\ currentSuggestions # <<>>
    /\ isConnected

(***************************************************************************)
(* C5.  The connected flag follows the open and close events: it is false  *)
(* after construction, only an open event sets it (firing one change       *)
(* notification), only a close event clears it (firing one change          *)
(* notification), and the status item reads Connected exactly when the     *)
(* flag is true.                                                           *)
(***************************************************************************)
C5_ConnectedFollowsOpenClose ==
    /\ ev.op = "constructor" => ~isConnected
    /\ ev.op = "open" => (isConnected /\ ev.fired = 1)
    /\ ev.op = "close" => (~isConnected /\ ev.fired = 1)
    /\ ev.op \notin {"constructor", "open", "close"} =>
          isConnected = ev.pre.isConnected
    /\ StatusLabel = "Connected" <=> isConnected

\* a close event has just cleared the flag of a connected provider
C5_Witness ==
    /\ ev.op = "close"
    /\ ev.pre.isConnected
    /\ ~isConnected
    /\ StatusLabel = "Disconnected"

(***************************************************************************)
(* C6.  On the socket's error event, before or after the connection        *)
(* opened, the provider marks itself disconnected and fires a change       *)
(* notification.                                                           *)
(***************************************************************************)
C6_ErrorMarksDisconnected ==
    ev.op = "error" => (~isConnected /\ ev.fired >= 1)

(***************************************************************************)
(* C7.  Connection is never retried: one connection attempt is made, by    *)
(* the constructor, no callback makes another, and a socket that has       *)
(* closed or was never created stays so.                                   *)
(***************************************************************************)
C7_NeverReconnects ==
    /\ attempts = 1
    /\ ev.op # "constructor" => attempts = ev.pre.attempts
    /\ (ev.op # "constructor" /\ ev.pre.ws \in {"closed", "null"}) =>
          ws = ev.pre.ws

\* the start action has just run on a provider whose socket has closed
C7_Witness ==
    /\ ev.op = "startSystem"
    /\ ev.pre.ws = "closed"
    /\ attempts = 1

(***************************************************************************)
(* C8.  Recovery is manual: re-triggering the start action after the       *)
(* connection closed leaves the provider connected again with start_system *)
(* sent.                                                                   *)
(***************************************************************************)
C8_StartRecovers ==
    (ev.op = "startSystem" /\ ev.pre.ws = "closed") =>
        /\ isConnected
        /\ ev.wrote = << << <<"type", "start_system">> >> >>

\* what the code does instead: once the socket has closed or failed, no
\* callback ever connects the provider again
C8_NeverRecovers ==
    ws \in {"closed", "null"} => (~isConnected /\ ev.wrote = <<>>)

(***************************************************************************)
(* C9.  A frame that parses as JSON but carries neither the tag            *)
(* error_detected nor suggestions_ready (a missing tag included) changes   *)
(* neither sequence nor the connected flag, fires no change notification,  *)
(* writes nothing and shows no notice; unless it is null, nothing is       *)
(* logged either.                                                          *)
(***************************************************************************)
C9_UnknownTagIgnored ==
    (/\ ev.op = "message"
     /\ ev.arg.json
     /\ ev.arg.value.t = "object" =>
           ev.arg.value.type \notin {"error_detected", "suggestions_ready"}) =>
        /\ StateKept
        /\ ev.fired = 0
        /\ ev.wrote = <<>>
        /\ ev.notices = <<>>
        /\ ~ev.raised
        /\ ev.arg.value.t # "null" => ev.logs = 0

\* an object without a type tag has just been received by a provider that
\* holds errors and suggestions
C9_Witness ==
    /\ HandledTag("<missing>")
    /\ currentErrors # <<>>
    /\ currentSuggestions # <<>>
    /\ ev.fired = 0

(***************************************************************************)
(* C10.  While connected, start, stop and apply fix each make exactly one  *)
(* network write and change nothing: start_system, stop_system, and        *)
(* apply_fix carrying the suggestion the action was invoked with.          *)
(***************************************************************************)
C10_ConnectedActionWritesOnce ==
    (ev.op \in {"startSystem", "stopSystem", "applyFix"} /\ ~WasDisconnected) =>
        /\ Len(ev.wrote) = 1
        /\ StateKept
        /\ ws = ev.pre.ws
        /\ ev.op = "startSystem" => ev.wrote[1] = << <<"type", "start_system">> >>
        /\ ev.op = "stopSystem" => ev.wrote[1] = << <<"type", "stop_system">> >>
        /\ ev.op = "applyFix" =>
              ev.wrote[1] = << <<"type", "apply_fix">>,
                               <<"suggestion", StringifySuggestion(ev.arg)>> >>

\* apply fix has just run on a connected provider with a suggestion that has
\* an explanation
C10_Witness ==
    /\ ev.op = "applyFix"
    /\ ~WasDisconnected
    /\ "explanation" \in DOMAIN ev.arg
    /\ Len(ev.wrote) = 1

(***************************************************************************)
(* C11.  No outbound action is queued or retried: the ws.send calls made   *)
(* so far are as many as the outbound actions invoked while connected; an  *)
(* action invoked while disconnected writes nothing, and no other callback *)
(* (the open event included) ever writes.                                  *)
(***************************************************************************)
C11_WritesAreActionsWhileConnected ==
    /\ hist.sent = hist.due
    /\ ~Outbound(ev) => ev.wrote = <<>>
    /\ (Outbound(ev) /\ WasDisconnected) => ev.wrote = <<>>

\* the connection has just opened after an outbound action was dropped
\* during the handshake, and nothing has been sent
C11_Witness ==
    /\ ev.op = "open"
    /\ hist.dropped
    /\ isConnected
    /\ hist.sent = 0

(***************************************************************************)
(* C12.  Every connection-open failure, reported by the error event or     *)
(* thrown while the socket is created, shows exactly one notice and lets   *)
(* no exception escape.                                                    *)
(***************************************************************************)
C12_OpenFailureOneNotice ==
    (\/ ev.op = "constructor" /\ ws = "null"
     \/ ev.op = "error" /\ ev.pre.ws \in {"connecting", "aborting"}) =>
        /\ Len(ev.notices) = 1
        /\ ~ev.raised

(***************************************************************************)
(* C13.  explainFix never touches the network: in every connection state   *)
(* it writes nothing, shows no notice, leaves both sequences, the flag and *)
(* the socket alone, and shows a panel with the suggestion's explanation,  *)
(* or with the placeholder when the suggestion has none.                   *)
(***************************************************************************)
C13_ExplainIsLocal ==
    ev.op = "explainFix" =>
        /\ ev.wrote = <<>>
        /\ ev.notices = <<>>
        /\ StateKept
        /\ ws = ev.pre.ws
        /\ hist.sent = hist.due
        /\ ev.panel.title = ev.arg.title
        /\ ev.panel.explanation =
              IF "explanation" \in DOMAIN ev.arg /\ ev.arg.explanation # ""
                THEN ev.arg.explanation
                ELSE "No explanation available"

\* a suggestion without explanation has just been explained on a connected
\* provider
C13_Witness ==
    /\ ev.op = "explainFix"
    /\ ~WasDisconnected
    /\ ws = "open"
    /\ "explanation" \notin DOMAIN ev.arg
    /\ ev.panel.explanation = "No explanation available"

C15_ErrorsAndSuggestionsIndependent ==
    /\ HandledTag("error_detected") =>
          /\ currentSuggestions = ev.pre.currentSuggestions
          /\ currentErrors = Append(ev.pre.currentErrors, ev.arg.value.error)
    /\ HandledTag("suggestions_ready") =>
          /\ currentErrors = ev.pre.currentErrors
          /\ currentSuggestions =
                IF ev.arg.value.suggestions = Undefined
                  THEN <<>>
                  ELSE ev.arg.value.suggestions.items

\* an error has just arrived at a provider that holds suggestions
C15_Witness ==
    /\ HandledTag("error_detected")
    /\ ev.pre.currentSuggestions # <<>>
    /\ currentSuggestions = ev.pre.currentSuggestions

(***************************************************************************)
(* C16.  Ignoring an error dismisses it: after the ignore-error command on *)
(* a listed error, that error is no longer in the error sequence.          *)
(***************************************************************************)
C16_IgnoreDismisses ==
    ev.op = "ignoreError" =>
        \A i \in 1..Len(currentErrors) : currentErrors[i] # ev.arg

(***************************************************************************)
(* C17.  With the Auto Start setting on, start_system is sent without any  *)
(* user action once the backend has accepted the connection: when the      *)
(* timeout has run and the provider is connected, the timeout's            *)
(* start_system has been sent.                                             *)
(***************************************************************************)
C17_AutoStartSends ==
    (timer = "fired" /\ isConnected) => hist.autoSent

(***************************************************************************)
(* C18.  The Fix Suggestions group never lists more suggestions than the   *)
(* Max Suggestions setting (3 when not set).                               *)
(***************************************************************************)
C18_AtMostMaxSuggestions ==
    Len(SuggestionItems) <=
        ConfigGet(config, "maxSuggestions", DocumentedMaxSuggestions)

(***************************************************************************)
(* C19.  With no host and port set, the connection is opened to localhost  *)
(* and port 8000, and the TypeScript source and the compiled output have   *)
(* the same default port.                                                  *)
(***************************************************************************)
C19_DefaultEndpoint ==
    ({"serverHost", "serverPort"} \cap DOMAIN config = {}) =>
        /\ target = [host |-> "localhost", port |-> DocumentedDefaultPort]
        /\ DefaultPort = CompiledDefaultPort

C21_MissingBodyMutatesNothing ==
    /\ (HandledTag("error_detected") /\ ev.arg.value.error = Undefined) =>
          currentErrors = ev.pre.currentErrors
    /\ (HandledTag("suggestions_ready") /\ ev.arg.value.suggestions = Undefined) =>
          currentSuggestions = ev.pre.currentSuggestions

(***************************************************************************)
(* The root of the tree: the status item comes first, each group is there  *)
(* exactly when its sequence is not empty, with the length in its label.   *)
(***************************************************************************)
C22_RootReflectsState ==
    LET root == getChildren(Undefined).items
        groups == { root[i].contextValue : i \in 2..Len(root) }
    IN  /\ ~getChildren(Undefined).threw
        /\ root[1] = [label |-> StatusLabel, contextValue |-> "<none>"]
        /\ "errors" \in groups <=> currentErrors # <<>>
        /\ "suggestions" \in groups <=> currentSuggestions # <<>>
        /\ \A i \in 2..Len(root) :
              /\ root[i].contextValue = "errors" =>
                    root[i].label = "Current Errors (" \o ToString(Len(currentErrors)) \o ")"
              /\ root[i].contextValue = "suggestions" =>
                    root[i].label = "Fix Suggestions (" \o ToString(Len(currentSuggestions)) \o ")"
        /\ Len(root) = 1 + Cardinality(groups)

\* the children of the Fix Suggestions group: one item for each suggestion,
\* in the order of the sequence
C22_SuggestionChildren ==
    LET sugs == getChildren([contextValue |-> "suggestions"])
    IN  /\ ~sugs.threw
        /\ Len(sugs.items) = Len(currentSuggestions)
        /\ \A i \in 1..Len(currentSuggestions) :
              sugs.items[i].label = currentSuggestions[i].title

\* the children of the Current Errors group: one item for each error, in
\* the order of the sequence
C22_ErrorChildren ==
    LET errs == getChildren([contextValue |-> "errors"])
    IN  /\ ~errs.threw
        /\ Len(errs.items) = Len(currentErrors)
        /\ \A i \in 1..Len(currentErrors) :
              errs.items[i].arguments = <<currentErrors[i]>>

(***************************************************************************)
(* C22.  The tree reflects the provider state in every reachable state:    *)
(* the first root item is the status item, each group is present exactly   *)
(* when its sequence is not empty and carries the length in its label, and *)
(* the children of each group are one item for each entry, in order.       *)
(***************************************************************************)
C22_TreeReflectsState ==
    /\ C22_RootReflectsState
    /\ C22_SuggestionChildren
    /\ C22_ErrorChildren

(***************************************************************************)
(* C23.  The analyze-error command tests the editor before the connection: *)
(* with no active editor it writes nothing and shows the one notice 'No    *)
(* active editor' in every connection state; with an editor and a          *)
(* connection it makes one write, analyze_error with the document's file   *)
(* name and the cursor line plus one; it never changes the provider.       *)
(***************************************************************************)
C23_AnalyzeChecksEditorFirst ==
    ev.op = "analyzeError" =>
        /\ StateKept
        /\ ws = ev.pre.ws
        /\ ~ev.arg.open =>
              /\ ev.wrote = <<>>
              /\ ev.notices = <<Notice("error", "No active editor")>>
        /\ (ev.arg.open /\ ~WasDisconnected) =>
              ev.wrote = << << <<"type", "analyze_error">>,
                               <<"file", ev.arg.fileName>>,
                               <<"line", ev.arg.line + 1>> >> >>

\* the command has just run on a connected provider with the cursor on the
\* last line of the model, and has written that line plus one
C23_Witness ==
    /\ ev.op = "analyzeError"
    /\ ev.arg.open
    /\ ev.arg.line = MaxLine
    /\ ~WasDisconnected
    /\ Len(ev.wrote) = 1
    /\ ev.wrote[1][3] = <<"line", MaxLine + 1>>

\* the command has just run with no active editor, once on a connected and
\* once on a disconnected provider
C23_NoEditorConnected ==
    ev.op = "analyzeError" /\ ~ev.arg.open /\ ~WasDisconnected

C23_NoEditorDisconnected ==
    ev.op = "analyzeError" /\ ~ev.arg.open /\ WasDisconnected

(***************************************************************************)
(* C24.  Every network write is made on an open socket: whenever the       *)
(* connected flag is true the socket exists, has opened, and has neither   *)
(* been closed by dispose nor reported an error; and every ws.send call is *)
(* made by a callback that started with the socket open.                   *)
(***************************************************************************)
C24_WritesOnOpenSocket ==
    /\ isConnected => ws = "open"
    /\ ev.wrote # <<>> => ev.pre.ws = "open"

====
